---- MODULE Spec2Model ----
(***************************************************************************)
(* Palette generation and contrast-optimization engine of the accessible   *)
(* colour palette generator: ColorUtil, colorHarmonies and PaletteGenerator.*)
(*                                                                         *)
(* Numbers are fixed point.  Hue, saturation and lightness are held in     *)
(* hundredths of a degree / percent (27000 is 270 degrees), RGB channels in *)
(* hundredths of an 8-bit level (25500 is 255), luminance in 1/100000 and   *)
(* contrast ratios in 1/10000 (45000 is 4.5:1).                             *)
(***************************************************************************)
EXTENDS Integers, Sequences, FiniteSets, TLC

VARIABLES
    harmonyType,   \* PaletteGenerator.harmonyType, the only mutable field
    op,            \* name of the last operation called on the instance
    args,          \* its arguments
    ret,           \* what it returned (or that it threw)
    optimized,     \* values seen inside the last call: of generatePalette the
                   \* contrast optimizer's output, of a direct call its trace
    ref,           \* an earlier call kept for comparison: [args, ret]
    stateSettings, \* the application state's settings
    paletteHistory, \* the application state's history entries
    pending,       \* generations waiting for their 50 ms timer, oldest first
    loadTimers,    \* loadHistoryItem calls waiting for their 100 ms timer
    heap,          \* the colour objects of the last generatePalette and its arrays
    isLoading,     \* the application state's loading flag
    debounceTimeout, \* this.debounceTimeout: 0 (null) or the id of the last timer set
    timers,        \* the 300 ms timers set and neither fired nor cleared: [id, due]
    now,           \* the time, in units of 100 ms
    lastInput      \* the time of the last input event on the base colour, -1 if none

debounceVars == <<debounceTimeout, timers, now, lastInput>>

appVars == <<stateSettings, paletteHistory, pending, loadTimers, isLoading, debounceTimeout,
             timers, now, lastInput>>

vars == <<harmonyType, op, args, ret, optimized, ref, stateSettings, paletteHistory, pending,
          loadTimers, heap, isLoading, debounceTimeout, timers, now, lastInput>>

----------------------------------------------------------------------------
(* Arithmetic helpers *)

Abs(x) == IF x < 0 THEN -x ELSE x
Min(a, b) == IF a < b THEN a ELSE b
Max(a, b) == IF a > b THEN a ELSE b
\* nearest integer to a / b, for b > 0 (halves away from zero)
RoundDiv(a, b) == IF a >= 0 THEN (2 * a + b) \div (2 * b) ELSE -((2 * (-a) + b) \div (2 * b))
\* the JavaScript remainder a % b: it takes the sign of the dividend
JsMod(a, b) == IF a >= 0 THEN a % b ELSE -((-a) % b)
RECURSIVE ToSeq(_, _)
\* the sequence <<f[1], ..., f[n]>>, each element computed once
ToSeq(f, n) == IF n = 0 THEN <<>> ELSE Append(ToSeq(f, n - 1), f[n])
\* the value of a one-element set: a value computed once and named
Only(S) == CHOOSE x \in S : TRUE
Max3(t) == Max(t[1], Max(t[2], t[3]))
Min3(t) == Min(t[1], Min(t[2], t[3]))

----------------------------------------------------------------------------
(* ColorUtil: hex / rgb / hsl views, luminance and contrast ratio *)

HexDigitsUpper == <<"0","1","2","3","4","5","6","7","8","9","A","B","C","D","E","F">>
HexDigitsLower == <<"0","1","2","3","4","5","6","7","8","9","a","b","c","d","e","f">>

IsHexDigit(c) == \E i \in 1..16 : HexDigitsUpper[i] = c \/ HexDigitsLower[i] = c
HexVal(c) == (CHOOSE i \in 1..16 : HexDigitsUpper[i] = c \/ HexDigitsLower[i] = c) - 1

\* the characters after the optional leading '#'
StripHash(str) == IF Len(str) > 0 /\ str[1] = "#" THEN Tail(str) ELSE str

\* exactly six hex digits after the optional '#'
IsValidHex(str) ==
    LET d == StripHash(str)
    IN  Len(d) = 6 /\ \A i \in 1..6 : IsHexDigit(d[i])

\* pairwise hex-byte decode
HexToRgb(str) ==
    LET d == StripHash(str)
    IN  <<16 * HexVal(d[1]) + HexVal(d[2]), 16 * HexVal(d[3]) + HexVal(d[4]),
          16 * HexVal(d[5]) + HexVal(d[6])>>

\* two-digit upper-case hex of each channel, rounded to the nearest level
RgbToHex(rgb) ==
    LET byte(i) == RoundDiv(rgb[i], 100)
    IN  <<"#", HexDigitsUpper[(byte(1) \div 16) + 1], HexDigitsUpper[(byte(1) % 16) + 1],
               HexDigitsUpper[(byte(2) \div 16) + 1], HexDigitsUpper[(byte(2) % 16) + 1],
               HexDigitsUpper[(byte(3) \div 16) + 1], HexDigitsUpper[(byte(3) % 16) + 1]>>

\* standard RGB -> HSL on 8-bit channels; achromatic: s = 0, h = 0
RgbToHsl(b) ==
    LET mx == Max3(b)
        mn == Min3(b)
        d  == mx - mn
        l  == RoundDiv((mx + mn) * 1000, 51)
        s  == IF mx + mn > 255 THEN RoundDiv(d * 10000, 510 - mx - mn)
                               ELSE RoundDiv(d * 10000, mx + mn)
        h6 == IF mx = b[1] THEN RoundDiv((b[2] - b[3]) * 6000, d)
                                + (IF b[2] < b[3] THEN 36000 ELSE 0)
              ELSE IF mx = b[2] THEN RoundDiv((b[3] - b[1]) * 6000, d) + 12000
              ELSE RoundDiv((b[1] - b[2]) * 6000, d) + 24000
    IN  IF mx = mn THEN <<0, 0, l>> ELSE <<h6 % 36000, s, l>>

\* hue2rgb of the standard HSL -> RGB conversion; t is a hue offset in 1/100 degree
HueToRgb(p, q, t0) ==
    LET t == IF t0 < 0 THEN t0 + 36000 ELSE IF t0 > 36000 THEN t0 - 36000 ELSE t0
    IN  IF t < 6000 THEN p + RoundDiv((q - p) * t, 6000)
        ELSE IF t < 18000 THEN q
        ELSE IF t < 24000 THEN p + RoundDiv((q - p) * (24000 - t), 6000)
        ELSE p

\* standard HSL -> RGB; channels keep their fraction
HslToRgb(hsl) ==
    LET h == hsl[1]
        s == hsl[2]
        l == hsl[3]
        q == IF l < 5000 THEN l + RoundDiv(l * s, 10000) ELSE l + s - RoundDiv(l * s, 10000)
        p == 2 * l - q
        ch(v) == RoundDiv(v * 51, 20)
    IN  IF s = 0 THEN <<ch(l), ch(l), ch(l)>>
        ELSE <<ch(HueToRgb(p, q, h + 12000)), ch(HueToRgb(p, q, h)), ch(HueToRgb(p, q, h - 12000))>>

\* new ColorUtil(hex); the caller has checked IsValidHex
FromHex(str) ==
    LET b == HexToRgb(str)
        rgb == <<b[1] * 100, b[2] * 100, b[3] * 100>>
    IN  [hex |-> RgbToHex(rgb),
         rgb |-> rgb,
         hsl |-> RgbToHsl(b)]

\* ColorUtil.fromHsl(h, s, l)
FromHsl(h, s, l) ==
    LET rgb == HslToRgb(<<h, s, l>>)
    IN  [hex |-> RgbToHex(rgb), rgb |-> rgb, hsl |-> <<h, s, l>>]

\* sRGB linearisation of the 256 channel levels, in 1/100000:
\* v / 12.92 if v <= 0.03928, else ((v + 0.055) / 1.055) ^ 2.4
Linear ==
 <<
    0, 30, 61, 91, 121, 152, 182, 212, 243, 273, 304, 335, 368, 402, 439, 478,
    518, 561, 605, 651, 700, 750, 802, 857, 913, 972, 1033, 1096, 1161, 1229, 1298, 1370,
    1444, 1521, 1600, 1681, 1764, 1850, 1938, 2029, 2122, 2217, 2315, 2416, 2519, 2624, 2732, 2843,
    2956, 3071, 3190, 3310, 3434, 3560, 3689, 3820, 3955, 4092, 4231, 4374, 4519, 4667, 4817, 4971,
    5127, 5286, 5448, 5613, 5781, 5951, 6125, 6301, 6480, 6663, 6848, 7036, 7227, 7421, 7619, 7819,
    8022, 8228, 8438, 8650, 8866, 9084, 9306, 9531, 9759, 9990, 10224, 10462, 10702, 10946, 11193, 11444,
    11697, 11954, 12214, 12477, 12744, 13014, 13287, 13563, 13843, 14126, 14413, 14703, 14996, 15293, 15593, 15896,
    16203, 16513, 16827, 17144, 17465, 17789, 18116, 18447, 18782, 19120, 19462, 19807, 20156, 20508, 20864, 21223,
    21586, 21953, 22323, 22697, 23074, 23455, 23840, 24228, 24620, 25016, 25415, 25818, 26225, 26636, 27050, 27468,
    27889, 28315, 28744, 29177, 29614, 30054, 30499, 30947, 31399, 31855, 32314, 32778, 33245, 33716, 34191, 34670,
    35153, 35640, 36131, 36625, 37124, 37626, 38133, 38643, 39157, 39676, 40198, 40724, 41254, 41789, 42327, 42869,
    43415, 43966, 44520, 45079, 45641, 46208, 46778, 47353, 47932, 48515, 49102, 49693, 50289, 50888, 51492, 52100,
    52712, 53328, 53948, 54572, 55201, 55834, 56471, 57112, 57758, 58408, 59062, 59720, 60383, 61050, 61721, 62396,
    63076, 63760, 64448, 65141, 65837, 66539, 67244, 67954, 68669, 69387, 70110, 70838, 71569, 72306, 73046, 73791,
    74540, 75294, 76052, 76815, 77582, 78354, 79130, 79910, 80695, 81485, 82279, 83077, 83880, 84687, 85499, 86316,
    87137, 87962, 88792, 89627, 90466, 91310, 92158, 93011, 93869, 94731, 95597, 96469, 97345, 98225, 99110, 100000
 >>

\* linearisation of a fractional channel, interpolated between two levels
Linearize(c) ==
    LET k == c \div 100
        f == c % 100
    IN  IF f = 0 THEN Linear[k + 1]
        ELSE Linear[k + 1] + RoundDiv((Linear[k + 2] - Linear[k + 1]) * f, 100)

\* getLuminance(): 0.2126 R + 0.7152 G + 0.0722 B
GetLuminance(c) ==
    RoundDiv(2126 * Linearize(c.rgb[1]) + 7152 * Linearize(c.rgb[2])
             + 722 * Linearize(c.rgb[3]), 10000)

\* getContrastRatio(other): (brightest + 0.05) / (darkest + 0.05)
GetContrastRatio(c, other) ==
    LET lum1 == GetLuminance(c)
        lum2 == GetLuminance(other)
    IN  RoundDiv((Max(lum1, lum2) + 5000) * 10000, Min(lum1, lum2) + 5000)

----------------------------------------------------------------------------
(* colorHarmonies: hue relationships, hues in 1/100 degree *)

Complementary(hue) == <<hue, JsMod(hue + 18000, 36000)>>
Triadic(hue) == <<hue, JsMod(hue + 12000, 36000), JsMod(hue + 24000, 36000)>>
\* analogous without the + 360 before the remainder
AnalogousUnwrapped(hue) ==
    <<hue, JsMod(hue + 2500, 36000), JsMod(hue + 5000, 36000),
      JsMod(hue - 2500, 36000), JsMod(hue - 5000, 36000)>>

Analogous(hue) ==
    <<hue, JsMod(hue + 2500, 36000), JsMod(hue + 5000, 36000),
      JsMod(hue - 2500 + 36000, 36000), JsMod(hue - 5000 + 36000, 36000)>>
Monochromatic(hue) == <<hue, hue, hue, hue, hue>>
Tetradic(hue) ==
    <<hue, JsMod(hue + 9000, 36000), JsMod(hue + 18000, 36000), JsMod(hue + 27000, 36000)>>

HarmonyTypes == {"complementary", "triadic", "analogous", "monochromatic", "tetradic"}

colorHarmonies(type, hue) ==
    CASE type = "complementary" -> Complementary(hue)
      [] type = "triadic"       -> Triadic(hue)
      [] type = "analogous"     -> Analogous(hue)
      [] type = "monochromatic" -> Monochromatic(hue)
      [] type = "tetradic"      -> Tetradic(hue)

----------------------------------------------------------------------------
(* PaletteGenerator *)

whiteColor == FromHex(<<"#", "f", "f", "f", "f", "f", "f">>)
darkBgColor == FromHex(<<"#", "2", "c", "3", "e", "5", "0">>)
DefaultBaseColor == <<"#", "5", "5", "0", "0", "A", "A">>

\* a palette size is given as the text parseInt sees, String(size)
Digits == <<"0", "1", "2", "3", "4", "5", "6", "7", "8", "9">>
IsDigit(c) == \E i \in 1..10 : Digits[i] = c
DigitVal(c) == (CHOOSE i \in 1..10 : Digits[i] = c) - 1

RECURSIVE SkipSpaces(_)
SkipSpaces(str) ==
    IF Len(str) > 0 /\ str[1] = " " THEN SkipSpaces(Tail(str)) ELSE str

RECURSIVE DigitPrefix(_, _)
\* value of the longest run of leading digits, acc is the value read so far
DigitPrefix(str, acc) ==
    IF Len(str) > 0 /\ IsDigit(str[1])
    THEN DigitPrefix(Tail(str), 10 * acc + DigitVal(str[1]))
    ELSE acc

\* parseInt(text): {} is NaN, {n} a number
ParseInt(text) ==
    LET s0   == SkipSpaces(text)
        neg  == Len(s0) > 0 /\ s0[1] = "-"
        s1   == IF Len(s0) > 0 /\ (s0[1] = "-" \/ s0[1] = "+") THEN Tail(s0) ELSE s0
    IN  IF Len(s1) > 0 /\ IsDigit(s1[1])
        THEN {IF neg THEN -DigitPrefix(s1, 0) ELSE DigitPrefix(s1, 0)}
        ELSE {}

\* validateSize accepting every size from 3 to 5
validateSizeInRange(size) ==
    LET numSize == ParseInt(size)
    IN  IF numSize # {} /\ (\A n \in numSize : n >= 3 /\ n <= 5)
        THEN CHOOSE n \in numSize : TRUE ELSE 5

validateSize(size) ==
    LET numSize == ParseInt(size)
    IN  IF numSize = {3} \/ numSize = {5} THEN CHOOSE n \in numSize : TRUE ELSE 5

\* the table read with a one-based index
OrDefaultFromOne(table, index, dflt) ==
    IF index >= 1 /\ index <= Len(table) THEN table[index] ELSE dflt

\* a[i] || dflt for a zero-based index into a table of non-zero numbers
OrDefault(table, index, dflt) ==
    IF index >= 0 /\ index < Len(table) THEN table[index + 1] ELSE dflt

\* arguments in 1/100 percent and 1/100 degree
generateColorFromHarmony(baseColor, harmonyHues, type, index, totalSize) ==
    LET hue0 == harmonyHues[JsMod(index, Len(harmonyHues)) + 1]
        monoHue == JsMod(baseColor.hsl[1] + (index - 1) * 1000, 36000)
        monoSat == Max(3000, Min(9000, baseColor.hsl[2] + (index - 2) * 1500))
        monoLight == IF totalSize = 3
                     THEN OrDefault(<<3000, 5000, 7000>>, index - 1, 5000)
                     ELSE OrDefault(<<1500, 3500, 5500, 7500, 9000>>, index - 1, 5000)
        sat0 == IF totalSize = 3
                THEN OrDefault(<<7500, 6000, 8500>>, index - 1, 7000)
                ELSE OrDefault(<<7500, 6000, 8500, 5000, 8000>>, index - 1, 7000)
        light0 == IF totalSize = 3
                  THEN OrDefault(<<5000, 3500, 7000>>, index - 1, 5000)
                  ELSE OrDefault(<<5000, 3500, 7000, 2000, 8000>>, index - 1, 5000)
        sat1 == CASE type = "complementary" ->
                       IF index = 1 THEN Min(8500, sat0 + 1000) ELSE sat0
                  [] type = "analogous" -> Max(5000, sat0 - 500)
                  [] OTHER -> sat0
        light1 == CASE type = "complementary" ->
                         IF index = 1 THEN Max(2000, light0 - 500) ELSE light0
                    [] type = "analogous" ->
                         IF index = 2 THEN Min(8000, light0 + 1000) ELSE light0
                    [] type = "tetradic" ->
                         IF JsMod(index, 2) = 1 THEN Max(1500, light0 - 1000)
                                          ELSE Min(8500, light0 + 1000)
                    [] OTHER -> light0
        hue == IF type = "monochromatic" THEN monoHue ELSE hue0
        saturation == IF type = "monochromatic" THEN monoSat ELSE sat1
        lightness == IF type = "monochromatic" THEN monoLight ELSE light1
    IN  FromHsl(hue, Max(2000, Min(9500, saturation)), Max(1000, Min(9000, lightness)))

\* slot 0 rebuilt from the parsed colour with the clamps of the other slots
BaseSlotClamped(baseColor) ==
    LET parsed == FromHex(baseColor)
    IN  FromHsl(parsed.hsl[1], Max(2000, Min(9500, parsed.hsl[2])),
                Max(1000, Min(9000, parsed.hsl[3])))

\* slot 0 of the base palette: new ColorUtil(baseColor)
BaseSlot(baseColor) == FromHex(baseColor)

\* the colour the harmony hues are derived from: the parsed base colour, or the
\* default when the constructor throws
HarmonySource(baseColor) ==
    IF IsValidHex(baseColor) THEN FromHex(baseColor) ELSE FromHex(DefaultBaseColor)

\* generateBaseColors; threw records the exception of new ColorUtil(baseColor) at
\* slot 0, which is outside the try block
generateBaseColors(baseColor, type, size) ==
    LET color == HarmonySource(baseColor)
        harmonyHues == colorHarmonies(type, color.hsl[1])
    IN  IF ~IsValidHex(baseColor) THEN [threw |-> TRUE, colors |-> <<>>]
        ELSE [threw |-> FALSE,
              colors |-> ToSeq([k \in 1..size |->
                IF k = 1 THEN BaseSlot(baseColor)
                ELSE generateColorFromHarmony(color, harmonyHues, type, k - 1, size)], size)]

\* backgroundColor.getLuminance() > 0.5
IsLightBackground(backgroundColor) == GetLuminance(backgroundColor) > 50000

\* [min, max] lightness of the first search phase, in 1/100 percent
getTargetLightnessRange(isLightBackground, colorIndex, totalColors, type) ==
    IF isLightBackground
    THEN IF type = "monochromatic"
         THEN IF totalColors = 3
              THEN <<1000 + colorIndex * 2000, 1000 + colorIndex * 2000 + 1500>>
              ELSE <<1000 + colorIndex * 1500, 1000 + colorIndex * 1500 + 1500>>
         ELSE <<<<1500, 3500>>, <<2500, 4500>>, <<3500, 5500>>, <<2000, 4000>>,
                <<1000, 3000>>>>[JsMod(colorIndex, 5) + 1]
    ELSE IF totalColors = 3
         THEN <<<<7000, 9500>>, <<6000, 8000>>, <<7500, 9000>>>>[JsMod(colorIndex, 3) + 1]
         ELSE <<<<7000, 9000>>, <<6000, 8000>>, <<5000, 7000>>, <<6500, 8500>>,
                <<7500, 9500>>>>[JsMod(colorIndex, 5) + 1]

RECURSIVE ExpandLoopUncapped(_, _, _, _, _, _, _, _, _, _)
\* the loop of expandedColorSearch without the limit of 45 iterations
ExpandLoopUncapped(i, targetLightness0, hue, sat, backgroundColor, targetRatio, delta, bestColor, bestContrast, steps) ==
    LET targetLightness == targetLightness0 + delta
        testColor == FromHsl(hue, sat, targetLightness)
        testContrast == GetContrastRatio(testColor, backgroundColor)
    IN  IF targetLightness < 500 \/ targetLightness > 9500
        THEN [color |-> bestColor, steps |-> steps]
        ELSE IF testContrast >= targetRatio
        THEN [color |-> testColor, steps |-> steps + 1]
        ELSE IF testContrast > bestContrast
        THEN ExpandLoopUncapped(i + 1, targetLightness, hue, sat, backgroundColor,
                                targetRatio, delta, testColor, testContrast, steps + 1)
        ELSE ExpandLoopUncapped(i + 1, targetLightness, hue, sat, backgroundColor,
                                targetRatio, delta, bestColor, bestContrast, steps + 1)

RECURSIVE ExpandLoop(_, _, _, _, _, _, _, _, _, _)
\* the loop of expandedColorSearch from iteration i on; steps counts the candidates
\* built so far
ExpandLoop(i, targetLightness0, hue, sat, backgroundColor, targetRatio, delta, bestColor, bestContrast, steps) ==
    LET targetLightness == targetLightness0 + delta
        testColor == FromHsl(hue, sat, targetLightness)
        testContrast == GetContrastRatio(testColor, backgroundColor)
    IN  IF i >= 45 THEN [color |-> bestColor, steps |-> steps]
        ELSE IF targetLightness < 500 \/ targetLightness > 9500
        THEN [color |-> bestColor, steps |-> steps]
        ELSE IF testContrast >= targetRatio
        THEN [color |-> testColor, steps |-> steps + 1]
        ELSE IF testContrast > bestContrast
        THEN ExpandLoop(i + 1, targetLightness, hue, sat, backgroundColor, targetRatio,
                        delta, testColor, testContrast, steps + 1)
        ELSE ExpandLoop(i + 1, targetLightness, hue, sat, backgroundColor, targetRatio,
                        delta, bestColor, bestContrast, steps + 1)

\* the expanded search stepping by 2 for every target
expandedColorSearchStepTwo(originalHsl, backgroundColor, targetRatio, isLightBackground, targetLightnessRange, bestColor, steps) ==
    LET searchDirection == IF isLightBackground THEN -1 ELSE 1
        targetLightness == (targetLightnessRange[1] + targetLightnessRange[2]) \div 2
    IN  ExpandLoop(0, targetLightness, originalHsl[1], originalHsl[2], backgroundColor,
                   targetRatio, searchDirection * 200, bestColor,
                   GetContrastRatio(bestColor, backgroundColor), steps)

expandedColorSearch(originalHsl, backgroundColor, targetRatio, isLightBackground, targetLightnessRange, bestColor, steps) ==
    LET step == IF targetRatio >= 70000 THEN 100 ELSE 200
        searchDirection == IF isLightBackground THEN -1 ELSE 1
        targetLightness == (targetLightnessRange[1] + targetLightnessRange[2]) \div 2
    IN  ExpandLoop(0, targetLightness, originalHsl[1], originalHsl[2], backgroundColor,
                   targetRatio, searchDirection * step, bestColor,
                   GetContrastRatio(bestColor, backgroundColor), steps)

RECURSIVE ScanRangeNoUpperBound(_, _, _, _, _, _, _, _, _, _)
\* the first loop of findOptimalColor accepting every candidate that meets the target
ScanRangeNoUpperBound(l, hi, hue, sat, backgroundColor, targetRatio, upperBound, bestColor, bestContrast, steps) ==
    LET testColor == FromHsl(hue, sat, l)
        testContrast == GetContrastRatio(testColor, backgroundColor)
    IN  IF l > hi
        THEN [found |-> FALSE, color |-> bestColor, steps |-> steps]
        ELSE IF testContrast >= targetRatio
        THEN [found |-> TRUE, color |-> testColor, steps |-> steps + 1]
        ELSE IF Abs(testContrast - targetRatio) < Abs(bestContrast - targetRatio)
        THEN ScanRangeNoUpperBound(l + 200, hi, hue, sat, backgroundColor, targetRatio,
                                   upperBound, testColor, testContrast, steps + 1)
        ELSE ScanRangeNoUpperBound(l + 200, hi, hue, sat, backgroundColor, targetRatio,
                                   upperBound, bestColor, bestContrast, steps + 1)

RECURSIVE ScanRange(_, _, _, _, _, _, _, _, _, _)
\* the first loop of findOptimalColor from lightness l on
ScanRange(l, hi, hue, sat, backgroundColor, targetRatio, upperBound, bestColor, bestContrast, steps) ==
    LET testColor == FromHsl(hue, sat, l)
        testContrast == GetContrastRatio(testColor, backgroundColor)
    IN  IF l > hi
        THEN [found |-> FALSE, color |-> bestColor, steps |-> steps]
        ELSE IF testContrast >= targetRatio /\ testContrast <= upperBound
        THEN [found |-> TRUE, color |-> testColor, steps |-> steps + 1]
        ELSE IF Abs(testContrast - targetRatio) < Abs(bestContrast - targetRatio)
        THEN ScanRange(l + 200, hi, hue, sat, backgroundColor, targetRatio, upperBound,
                       testColor, testContrast, steps + 1)
        ELSE ScanRange(l + 200, hi, hue, sat, backgroundColor, targetRatio, upperBound,
                       bestColor, bestContrast, steps + 1)

\* self is this.harmonyType as findOptimalColor reads it.  Besides the colour
\* returned the result tells the phase that returned it (1 the scan of the range,
\* 2 the expanded search) and the bestColor the scan ended with.
findOptimalColor(self, originalColor, backgroundColor, targetRatio, upperBound, colorIndex, totalColors) ==
    LET isLightBackground == IsLightBackground(backgroundColor)
        range == getTargetLightnessRange(isLightBackground, colorIndex, totalColors, self)
    IN  Only({ IF scan.found
               THEN [color |-> scan.color, steps |-> scan.steps, phase |-> 1,
                     handed |-> scan.color]
               ELSE Only({ [color |-> found.color, steps |-> found.steps, phase |-> 2,
                            handed |-> scan.color] :
                           found \in {expandedColorSearch(originalColor.hsl,
                                          backgroundColor, targetRatio, isLightBackground,
                                          range, scan.color, scan.steps)} }) :
               scan \in {ScanRange(range[1], range[2], originalColor.hsl[1],
                                   originalColor.hsl[2], backgroundColor, targetRatio,
                                   upperBound, originalColor,
                                   GetContrastRatio(originalColor, backgroundColor), 0)} })

\* the optimizer searching a replacement also for a colour above the upper bound
optimizeColorWithinBand(self, originalColor, backgroundColor, targetRatio, colorIndex, totalColors) ==
    LET currentContrast == GetContrastRatio(originalColor, backgroundColor)
        upperBound == IF targetRatio = 45000 THEN 60000 ELSE 85000
    IN  IF currentContrast >= targetRatio /\ currentContrast <= upperBound
        THEN [color |-> originalColor, steps |-> 0, phase |-> 0, handed |-> originalColor]
        ELSE findOptimalColor(self, originalColor, backgroundColor, targetRatio,
                              upperBound, colorIndex, totalColors)

\* phase 0: the original colour is returned without a search
optimizeColorForBackground(self, originalColor, backgroundColor, targetRatio, colorIndex, totalColors) ==
    LET currentContrast == GetContrastRatio(originalColor, backgroundColor)
        upperBound == IF targetRatio = 45000 THEN 60000 ELSE 85000
    IN  IF currentContrast >= targetRatio
        THEN [color |-> originalColor, steps |-> 0, phase |-> 0, handed |-> originalColor]
        ELSE findOptimalColor(self, originalColor, backgroundColor, targetRatio,
                              upperBound, colorIndex, totalColors)

\* generateOptimizedPalette: for each slot the optimized colour, with the number of
\* candidates the search built for it
generateOptimizedPalette(self, baseColors, backgroundColor, minContrastRatio) ==
    ToSeq([k \in 1..Len(baseColors) |->
        optimizeColorForBackground(self, baseColors[k], backgroundColor,
                                   minContrastRatio, k - 1, Len(baseColors))],
          Len(baseColors))

----------------------------------------------------------------------------
(* Differentiation engine *)

getCircularHueDistance(hue1, hue2) ==
    LET h1 == JsMod(JsMod(hue1, 36000) + 36000, 36000)
        h2 == JsMod(JsMod(hue2, 36000) + 36000, 36000)
        diff == Abs(h1 - h2)
    IN  Min(diff, 36000 - diff)

getOptimalLightnessDistribution(paletteSize, isLightBackground) ==
    IF isLightBackground
    THEN IF paletteSize = 3 THEN <<1500, 3500, 5500>>
         ELSE <<1000, 2500, 4000, 5500, 7000>>
    ELSE IF paletteSize = 3 THEN <<6000, 7500, 9000>>
         ELSE <<5000, 6500, 8000, 9000, 9500>>

RECURSIVE AdjustLoop(_, _, _, _, _, _)
\* the search loop of adjustColorToTargetLightness from adjustment on
AdjustLoop(adjustment, originalColor, backgroundColor, minContrastRatio, targetLightness, searchDirection) ==
    LET adjustedLightness ==
            Max(500, Min(9500, targetLightness + searchDirection * adjustment))
        testColor == FromHsl(originalColor.hsl[1], originalColor.hsl[2], adjustedLightness)
    IN  IF adjustment > 2500 THEN originalColor
        ELSE IF GetContrastRatio(testColor, backgroundColor) >= minContrastRatio
        THEN testColor
        ELSE AdjustLoop(adjustment + 500, originalColor, backgroundColor,
                        minContrastRatio, targetLightness, searchDirection)

\* the search of stage 1 moving toward the background's lightness
adjustColorTowardBackground(originalColor, backgroundColor, minContrastRatio, targetLightness) ==
    LET testColor == FromHsl(originalColor.hsl[1], originalColor.hsl[2], targetLightness)
        searchDirection == IF IsLightBackground(backgroundColor) THEN 1 ELSE -1
    IN  IF GetContrastRatio(testColor, backgroundColor) >= minContrastRatio
        THEN testColor
        ELSE AdjustLoop(500, originalColor, backgroundColor, minContrastRatio,
                        targetLightness, searchDirection)

adjustColorToTargetLightness(originalColor, backgroundColor, minContrastRatio, targetLightness) ==
    LET testColor == FromHsl(originalColor.hsl[1], originalColor.hsl[2], targetLightness)
        searchDirection == IF IsLightBackground(backgroundColor) THEN -1 ELSE 1
    IN  IF GetContrastRatio(testColor, backgroundColor) >= minContrastRatio
        THEN testColor
        ELSE AdjustLoop(500, originalColor, backgroundColor, minContrastRatio,
                        targetLightness, searchDirection)

\* stage 1 with the targets spaced by minLightnessDiff from the first one
distributeColorsSpaced(palette, backgroundColor, minContrastRatio, minLightnessDiff) ==
    LET optimalLightness ==
            getOptimalLightnessDistribution(Len(palette), IsLightBackground(backgroundColor))
    IN  ToSeq([k \in 1..Len(palette) |->
            adjustColorToTargetLightness(palette[k], backgroundColor, minContrastRatio,
                Min(9500, optimalLightness[1] + (k - 1) * minLightnessDiff))],
              Len(palette))

\* stage 1; minLightnessDiff is received and only logged
distributeColorsOptimally(palette, backgroundColor, minContrastRatio, minLightnessDiff) ==
    LET optimalLightness ==
            getOptimalLightnessDistribution(Len(palette), IsLightBackground(backgroundColor))
    IN  ToSeq([k \in 1..Len(palette) |->
            adjustColorToTargetLightness(palette[k], backgroundColor, minContrastRatio,
                                         optimalLightness[k])], Len(palette))

RECURSIVE PairsFrom(_, _, _)
\* the index pairs i < j in the order of the nested for loops
PairsFrom(i, j, n) ==
    IF i > n THEN <<>>
    ELSE IF j > n THEN PairsFrom(i + 1, i + 2, n)
    ELSE <<<<i, j>>>> \o PairsFrom(i, j + 1, n)

SimilarSaturation(palette, pair, minSaturationDiff) ==
    /\ Abs(palette[pair[1]].hsl[2] - palette[pair[2]].hsl[2]) < minSaturationDiff
    /\ Abs(palette[pair[1]].hsl[3] - palette[pair[2]].hsl[3]) < 1500

\* the iteration adjusting the earlier slot of the pair
SaturationStepEarlier(palette, pair, minSaturationDiff) ==
    LET color1 == palette[pair[2]]
        color2 == palette[pair[1]]
        adjustment == minSaturationDiff + 1000
        newSat == IF color2.hsl[2] > color1.hsl[2]
                  THEN Min(9500, color2.hsl[2] + adjustment)
                  ELSE Max(2000, color2.hsl[2] - adjustment)
    IN  [palette EXCEPT ![pair[1]] = FromHsl(color2.hsl[1], newSat, color2.hsl[3])]

\* one iteration of the second loop of adjustSaturationForDifferentiation
SaturationStep(palette, pair, minSaturationDiff) ==
    LET color1 == palette[pair[1]]
        color2 == palette[pair[2]]
        adjustment == minSaturationDiff + 1000
        newSat == IF color2.hsl[2] > color1.hsl[2]
                  THEN Min(9500, color2.hsl[2] + adjustment)
                  ELSE Max(2000, color2.hsl[2] - adjustment)
    IN  [palette EXCEPT ![pair[2]] = FromHsl(color2.hsl[1], newSat, color2.hsl[3])]

RECURSIVE SaturationLoop(_, _, _)
SaturationLoop(palette, pairs, minSaturationDiff) ==
    IF pairs = <<>> THEN palette
    ELSE SaturationLoop(SaturationStep(palette, Head(pairs), minSaturationDiff),
                        Tail(pairs), minSaturationDiff)

\* stage 2
adjustSaturationForDifferentiation(palette, minSaturationDiff) ==
    LET Similar(pair) == SimilarSaturation(palette, pair, minSaturationDiff)
        similarSaturationPairs == SelectSeq(PairsFrom(1, 2, Len(palette)), Similar)
    IN  SaturationLoop(palette, similarSaturationPairs, minSaturationDiff)

VeryClose(palette, pair) ==
    /\ getCircularHueDistance(palette[pair[1]].hsl[1], palette[pair[2]].hsl[1]) < 1500
    /\ Abs(palette[pair[1]].hsl[3] - palette[pair[2]].hsl[3]) < 1000
    /\ Abs(palette[pair[1]].hsl[2] - palette[pair[2]].hsl[2]) < 1000

\* the iteration trying the negative direction first
HueStepDownFirst(palette, pair, backgroundColor, minContrastRatio, maxHueAdjustment) ==
    LET originalHsl == palette[pair[2]].hsl
        up == FromHsl(JsMod(originalHsl[1] + maxHueAdjustment + 36000, 36000),
                      originalHsl[2], originalHsl[3])
        down == FromHsl(JsMod(originalHsl[1] - maxHueAdjustment + 36000, 36000),
                        originalHsl[2], originalHsl[3])
    IN  IF GetContrastRatio(down, backgroundColor) >= minContrastRatio
        THEN [palette EXCEPT ![pair[2]] = down]
        ELSE IF GetContrastRatio(up, backgroundColor) >= minContrastRatio
        THEN [palette EXCEPT ![pair[2]] = up]
        ELSE palette

\* one iteration of the second loop of applyMinimalHueAdjustments
HueStep(palette, pair, backgroundColor, minContrastRatio, maxHueAdjustment) ==
    LET originalHsl == palette[pair[2]].hsl
        up == FromHsl(JsMod(originalHsl[1] + maxHueAdjustment + 36000, 36000),
                      originalHsl[2], originalHsl[3])
        down == FromHsl(JsMod(originalHsl[1] - maxHueAdjustment + 36000, 36000),
                        originalHsl[2], originalHsl[3])
    IN  IF GetContrastRatio(up, backgroundColor) >= minContrastRatio
        THEN [palette EXCEPT ![pair[2]] = up]
        ELSE IF GetContrastRatio(down, backgroundColor) >= minContrastRatio
        THEN [palette EXCEPT ![pair[2]] = down]
        ELSE palette

RECURSIVE HueLoop(_, _, _, _, _)
HueLoop(palette, pairs, backgroundColor, minContrastRatio, maxHueAdjustment) ==
    IF pairs = <<>> THEN palette
    ELSE HueLoop(HueStep(palette, Head(pairs), backgroundColor, minContrastRatio,
                         maxHueAdjustment),
                 Tail(pairs), backgroundColor, minContrastRatio, maxHueAdjustment)

\* stage 3
applyMinimalHueAdjustments(palette, backgroundColor, minContrastRatio, maxHueAdjustment) ==
    LET Close(pair) == VeryClose(palette, pair)
        veryClosePairs == SelectSeq(PairsFrom(1, 2, Len(palette)), Close)
    IN  HueLoop(palette, veryClosePairs, backgroundColor, minContrastRatio,
                maxHueAdjustment)

\* the repair pass searching a replacement for every slot
ensureMinimumContrastEverySlot(self, palette, backgroundColor, minContrastRatio) ==
    ToSeq([k \in 1..Len(palette) |->
        findOptimalColor(self, palette[k], backgroundColor, minContrastRatio,
                         (minContrastRatio * 3) \div 2, k - 1, Len(palette)).color],
          Len(palette))

\* ensureMinimumContrast
ensureMinimumContrast(self, palette, backgroundColor, minContrastRatio) ==
    ToSeq([k \in 1..Len(palette) |->
        IF GetContrastRatio(palette[k], backgroundColor) < minContrastRatio
        THEN findOptimalColor(self, palette[k], backgroundColor, minContrastRatio,
                              (minContrastRatio * 3) \div 2, k - 1, Len(palette)).color
        ELSE palette[k]], Len(palette))

\* the forEach without the floor of 40 on the saturation
MonochromaticLadderNoFloor(palette, backgroundColor) ==
    LET baseHue == palette[1].hsl[1]
        lightnessValues == IF Len(palette) = 3 THEN <<1500, 5000, 8500>>
                           ELSE <<1000, 3000, 5000, 7000, 9000>>
    IN  ToSeq([k \in 1..Len(palette) |->
            FromHsl(JsMod(baseHue + (k - 1) * 500, 36000),
                    palette[k].hsl[2],
                    IF IsLightBackground(backgroundColor)
                    THEN lightnessValues[k] ELSE 10000 - lightnessValues[k])], Len(palette))

\* the forEach of enhanceMonochromaticDifferentiation
MonochromaticLadder(palette, backgroundColor) ==
    LET baseHue == palette[1].hsl[1]
        lightnessValues == IF Len(palette) = 3 THEN <<1500, 5000, 8500>>
                           ELSE <<1000, 3000, 5000, 7000, 9000>>
    IN  ToSeq([k \in 1..Len(palette) |->
            FromHsl(JsMod(baseHue + (k - 1) * 500, 36000),
                    Max(4000, palette[k].hsl[2]),
                    IF IsLightBackground(backgroundColor)
                    THEN lightnessValues[k] ELSE 10000 - lightnessValues[k])], Len(palette))

enhanceMonochromaticDifferentiation(self, palette, backgroundColor, minContrastRatio) ==
    ensureMinimumContrast(self, MonochromaticLadder(palette, backgroundColor),
                          backgroundColor, minContrastRatio)

\* the detection taking a distance of exactly 5 as monochromatic
IsMonochromaticInclusive(palette) ==
    \A k \in 1..Len(palette) :
        getCircularHueDistance(palette[k].hsl[1], palette[1].hsl[1]) <= 500

\* palette.every(c => distance(c.h, palette[0].h) < 5)
IsMonochromatic(palette) ==
    \A k \in 1..Len(palette) :
        getCircularHueDistance(palette[k].hsl[1], palette[1].hsl[1]) < 500

\* differentiationSettings.minLuminanceDifference || 10, in 1/100 percent
MinLightnessDifference(differentiationSettings) ==
    IF differentiationSettings.minLuminanceDifference = 0 THEN 1000
    ELSE differentiationSettings.minLuminanceDifference * 100

\* the three general stages in sequence
GeneralStages(palette, backgroundColor, minContrastRatio, differentiationSettings) ==
    applyMinimalHueAdjustments(
        adjustSaturationForDifferentiation(
            distributeColorsOptimally(palette, backgroundColor, minContrastRatio,
                                      MinLightnessDifference(differentiationSettings)),
            2000),
        backgroundColor, minContrastRatio, 1000)

\* applySimpleDifferentiation: the palette it leaves in the array
applySimpleDifferentiation(self, palette, backgroundColor, minContrastRatio, differentiationSettings) ==
    IF IsMonochromatic(palette)
    THEN enhanceMonochromaticDifferentiation(self, palette, backgroundColor,
                                             minContrastRatio)
    ELSE GeneralStages(palette, backgroundColor, minContrastRatio,
                       differentiationSettings)

\* an option the caller left out
Undefined == "undefined"

\* options.harmonyType || this.harmonyType: the field survives a call without one
AssignHarmonyTypeOrKept(old, options) ==
    IF options.harmonyType = Undefined THEN old ELSE options.harmonyType

\* this.harmonyType = options.harmonyType || 'triadic'; old is the field before
AssignHarmonyType(old, options) ==
    IF options.harmonyType = Undefined THEN "triadic" ELSE options.harmonyType

\* the destructuring default: harmonyType = 'triadic'
DefaultHarmonyType(options) ==
    IF options.harmonyType = Undefined THEN "triadic" ELSE options.harmonyType

\* wcagLevel === 'AAA' ? 7 : 4.5
MinContrastRatioOf(wcagLevel) == IF wcagLevel = "AAA" THEN 70000 ELSE 45000

StepsOf(slots) == ToSeq([k \in 1..Len(slots) |-> slots[k].steps], Len(slots))
ColorsOf(slots) == ToSeq([k \in 1..Len(slots) |-> slots[k].color], Len(slots))

\* generatePalette after its first statement, on an instance whose harmonyType is
\* self.  light0 / dark0 are lightColors / darkColors before differentiation,
\* lightSteps / darkSteps the candidates the optimizer built for each slot.
generatePalette(self, options) ==
    LET size == validateSize(options.paletteSize)
        minContrastRatio == MinContrastRatioOf(options.wcagLevel)
        settings == options.differentiationSettings
        Differentiated(colors, backgroundColor) ==
            IF settings.enabled
            THEN applySimpleDifferentiation(self, colors, backgroundColor,
                                            minContrastRatio, settings)
            ELSE colors
        Optimized(baseColors) ==
            Only({ Only({ [threw |-> FALSE, base |-> baseColors,
                    lightOptimized |-> Differentiated(lightColors, whiteColor),
                    darkOptimized |-> Differentiated(darkColors, darkBgColor),
                    light0 |-> lightColors, dark0 |-> darkColors,
                    lightSteps |-> StepsOf(lightSlots),
                    darkSteps |-> StepsOf(darkSlots)] :
                   lightColors \in {ColorsOf(lightSlots)},
                   darkColors \in {ColorsOf(darkSlots)} }) :
              lightSlots \in {generateOptimizedPalette(self, baseColors, whiteColor,
                                                       minContrastRatio)},
              darkSlots \in {generateOptimizedPalette(self, baseColors, darkBgColor,
                                                      minContrastRatio)} })
    IN  Only({ IF built.threw
               THEN [threw |-> TRUE, base |-> <<>>, lightOptimized |-> <<>>,
                     darkOptimized |-> <<>>, light0 |-> <<>>, dark0 |-> <<>>,
                     lightSteps |-> <<>>, darkSteps |-> <<>>]
               ELSE Optimized(built.colors) :
               built \in {generateBaseColors(options.baseColor,
                                             DefaultHarmonyType(options), size)} })

----------------------------------------------------------------------------
(* Inputs *)

NumBaseColors == 2

\* valid base colours, written as the UI's colour input gives them
BaseColorTable ==
    << <<"#", "5", "5", "0", "0", "A", "A">>,
       <<"#", "F", "F", "0", "0", "0", "0">>,
       <<"#", "0", "0", "F", "F", "0", "0">> >>
ValidBaseColors == {BaseColorTable[i] : i \in 1..NumBaseColors}

\* strings that are no 6-digit hex colour
MalformedBaseColors ==
    { <<"#", "G", "G", "0", "0", "A", "A">>, <<"#", "5", "5", "0", "0", "A">> }

WcagLevels == {"AA", "AAA"}

\* the differentiation settings the application passes
AppDifferentiation(enabled) ==
    [enabled |-> enabled, minHueDifference |-> 60, minLuminanceDifference |-> 30]

OptionsCore ==
    [paletteSize : {<<"3">>, <<"5">>}, wcagLevel : WcagLevels, harmonyType : HarmonyTypes,
     baseColor : ValidBaseColors \cup MalformedBaseColors,
     differentiationSettings : {AppDifferentiation(e) : e \in BOOLEAN}]

\* the calls repeated in the determinism check; some name no harmony type
OptionsRepeat ==
    [paletteSize : {<<"3">>, <<"5">>}, wcagLevel : {"AAA"},
     harmonyType : HarmonyTypes \cup {Undefined},
     baseColor : ValidBaseColors,
     differentiationSettings : {AppDifferentiation(TRUE)}]

\* String(paletteSize) for 3, 5, 4, 3.7, 10, 35, -3, '3px', '5px', '' and 'abc'
SizeTexts ==
    { <<"3">>, <<"5">>, <<"4">>, <<"3", ".", "7">>, <<"1", "0">>, <<"3", "5">>,
      <<"-", "3">>, <<"3", "p", "x">>, <<"5", "p", "x">>, <<>>, <<"a", "b", "c">> }

OptionsSize ==
    [paletteSize : SizeTexts, wcagLevel : {"AA"},
     harmonyType : {"triadic", "monochromatic"},
     baseColor : {BaseColorTable[1]},
     differentiationSettings : {AppDifferentiation(TRUE)}]

OptionsTuning ==
    [paletteSize : {<<"3">>, <<"5">>}, wcagLevel : {"AA"},
     harmonyType : {"triadic", "analogous", "monochromatic"},
     baseColor : {BaseColorTable[1]},
     differentiationSettings :
        [enabled : BOOLEAN, minHueDifference : {15, 60},
         minLuminanceDifference : {10, 30}]]

\* the generatePalette calls that set the field before a direct call of
\* applySimpleDifferentiation
OptionsDiff ==
    [paletteSize : {<<"5">>}, wcagLevel : {"AA"},
     harmonyType : {"triadic", "monochromatic"},
     baseColor : {BaseColorTable[1]},
     differentiationSettings : {AppDifferentiation(TRUE)}]

AllOptions ==
    OptionsCore \cup OptionsRepeat \cup OptionsSize \cup OptionsTuning \cup OptionsDiff

\* the instances and calls whose generatePalette is evaluated once: every call
\* on an instance whose field is the call's harmony type, and the calls naming
\* no harmony type on every instance
MemoKeys ==
    {<<DefaultHarmonyType(o), o>> : o \in AllOptions}
        \cup (HarmonyTypes \X {o \in AllOptions : o.harmonyType = Undefined})

Memo == [x \in MemoKeys |-> generatePalette(x[1], x[2])] @@ <<>>

\* generatePalette(self, options), looked up where Memo holds it
Run(self, options) ==
    IF <<self, options>> \in MemoKeys
    THEN Memo[<<self, options>>]
    ELSE generatePalette(self, options)

\* base hues in whole degrees
NumHues == 360
Hues == {100 * k : k \in 0..(NumHues - 1)}

\* palettes handed to applySimpleDifferentiation directly: n colours of one
\* saturation and lightness whose hues step by d from h0
SamplePalette(c) ==
    ToSeq([k \in 1..c.n |-> FromHsl((c.h0 + (k - 1) * c.d) % 36000, c.s, c.l)], c.n)

DiffCalls ==
    [h0 : {0, 12000, 35800}, d : {0, 200, 250, 700}, s : {2000, 6000}, l : {3500}, n : {3, 5},
     light : BOOLEAN, minContrastRatio : {45000, 70000}]

BackgroundOf(c) == IF c.light THEN whiteColor ELSE darkBgColor

\* applySimpleDifferentiation of every sample call on an instance whose field is
\* self, evaluated once; the settings argument is left out (= {})
DiffMemo ==
    [x \in {"triadic", "monochromatic"} \X DiffCalls |->
        applySimpleDifferentiation(x[1], SamplePalette(x[2]), BackgroundOf(x[2]),
                                   x[2].minContrastRatio,
                                   [minLuminanceDifference |-> 0])] @@ <<>>

\* palettes handed to the three stages directly, as hsl
StagePalettes ==
    << << <<0, 10000, 5000>>, <<12000, 10000, 5000>>, <<6000, 10000, 5000>> >>,
       << <<1000, 6000, 4500>>, <<2000, 6000, 4500>>, <<20000, 9000, 8000>> >>,
       << <<6000, 10000, 5000>>, <<6500, 10000, 5000>>, <<24000, 5000, 3000>> >>,
       << <<12000, 5500, 5000>>, <<0, 6000, 5000>>, <<24000, 9000, 2000>> >>,
       << <<0, 4000, 3000>>, <<12000, 3500, 3000>>, <<24000, 9000, 7000>> >>,
       << <<0, 6000, 3500>>, <<700, 6000, 3500>>, <<1400, 6000, 3500>> >>,
       << <<0, 7500, 5000>>, <<7200, 6000, 3500>>, <<14400, 8500, 7000>>,
          <<21600, 5000, 2000>>, <<28800, 8000, 8000>> >>,
       << <<27000, 5000, 4500>>, <<9000, 5000, 4500>>, <<9500, 4500, 4000>>,
          <<18000, 5000, 4500>>, <<0, 2000, 9000>> >> >>

StagePalette(i) ==
    ToSeq([k \in 1..Len(StagePalettes[i]) |->
            FromHsl(StagePalettes[i][k][1], StagePalettes[i][k][2],
                    StagePalettes[i][k][3])], Len(StagePalettes[i]))

StageCalls ==
    [palette : 1..Len(StagePalettes), light : BOOLEAN, minContrastRatio : {45000, 70000}]

\* the three stages of every sample call, each on the sample palette, evaluated once
StageMemo ==
    [c \in StageCalls |->
        [lightness |-> distributeColorsOptimally(StagePalette(c.palette),
                            BackgroundOf(c), c.minContrastRatio, 1000),
         saturation |-> adjustSaturationForDifferentiation(StagePalette(c.palette), 2000),
         hue |-> applyMinimalHueAdjustments(StagePalette(c.palette), BackgroundOf(c),
                                            c.minContrastRatio, 1000)]] @@ <<>>

\* limits of the application runs explored
MaxHistory == 2
MaxPending == 2
MaxTimers == 3
MaxTime == 7

\* the delay of the debounce timer, 300 ms, in units of 100 ms
DebounceDelay == 3

\* the settings the form gives: a valid or a malformed base colour, the switch on
\* or off
FormSettings ==
    [paletteSize : {<<"5">>}, wcagLevel : {"AA"}, harmonyType : {"triadic"},
     baseColor : {BaseColorTable[1], <<"#", "G", "G", "0", "0", "A", "A">>},
     differentiationSettings : {AppDifferentiation(e) : e \in BOOLEAN}]

\* the palettes of one hue among the palettes handed to applySimpleDifferentiation
RepairCalls == {c \in DiffCalls : c.d = 0 /\ c.h0 = 0}

\* colours handed to optimizeColorForBackground directly, as hsl: pure red, pure
\* yellow, the default base colour, a pale orange and a mid green
SampleColors ==
    { <<0, 10000, 5000>>, <<6000, 10000, 5000>>, <<27000, 10000, 3300>>,
      <<3000, 9000, 9000>>, <<12000, 6000, 3500>> }

\* slot is <<colorIndex, totalColors>>; no colour has 12:1 against the dark
\* background
OptimizeCalls ==
    [hsl : SampleColors, light : BOOLEAN, targetRatio : {45000, 70000, 120000},
     slot : {<<0, 3>>, <<2, 3>>, <<0, 5>>, <<2, 5>>, <<4, 5>>}]

\* optimizeColorForBackground of every sample call on an instance whose field is
\* self, evaluated once
OptimizeMemo ==
    [x \in {"triadic", "monochromatic"} \X OptimizeCalls |->
        optimizeColorForBackground(x[1], FromHsl(x[2].hsl[1], x[2].hsl[2], x[2].hsl[3]),
                                   BackgroundOf(x[2]), x[2].targetRatio,
                                   x[2].slot[1], x[2].slot[2])] @@ <<>>

\* base palettes handed to generateOptimizedPalette directly
SampleBaseColors ==
    << generateBaseColors(BaseColorTable[1], "triadic", 5).colors,
       generateBaseColors(BaseColorTable[1], "monochromatic", 5).colors >>

PaletteCalls == [base : {1, 2}, light : BOOLEAN, minContrastRatio : {45000, 70000}]

PaletteMemo ==
    [x \in {"triadic", "monochromatic"} \X PaletteCalls |->
        ColorsOf(generateOptimizedPalette(x[1], SampleBaseColors[x[2].base],
                                          BackgroundOf(x[2]),
                                          x[2].minContrastRatio))] @@ <<>>

----------------------------------------------------------------------------
(* ExportManager and UIComponents: the accessibility figures shown for a colour;
   luminance in 1/100000, ratios in 1/10000 *)

\* ExportManager.calculateContrast
calculateContrast(lum1, lum2) ==
    RoundDiv((Max(lum1, lum2) + 5000) * 10000, Min(lum1, lum2) + 5000)

\* the entries of one background; backgroundLuminance is the getLuminance() of the
\* stand-in object of the export
ComplianceOf(palette, backgroundLuminance, requiredRatio) ==
    ToSeq([k \in 1..Len(palette) |->
        LET ratio == calculateContrast(GetLuminance(palette[k]), backgroundLuminance)
        IN  [colorIndex |-> k, compliant |-> ratio >= requiredRatio, ratio |-> ratio,
             level |-> IF ratio >= 70000 THEN "AAA"
                       ELSE IF ratio >= 45000 THEN "AA" ELSE "FAIL"]], Len(palette))

\* ExportManager.checkWCAGCompliance: whiteColor has luminance 1, darkColor 0.133
checkWCAGCompliance(lightOptimized, darkOptimized, wcagLevel) ==
    LET requiredRatio == IF wcagLevel = "AAA" THEN 70000 ELSE 45000
    IN  [lightBackground |-> ComplianceOf(lightOptimized, 100000, requiredRatio),
         darkBackground |-> ComplianceOf(darkOptimized, 13300, requiredRatio)]

\* ExportManager.calculateContrastRatios
calculateContrastRatios(lightOptimized, darkOptimized) ==
    [lightBackground |-> ToSeq([k \in 1..Len(lightOptimized) |->
        [colorIndex |-> k,
         ratio |-> calculateContrast(GetLuminance(lightOptimized[k]), 100000)]],
        Len(lightOptimized)),
     darkBackground |-> ToSeq([k \in 1..Len(darkOptimized) |->
        [colorIndex |-> k,
         ratio |-> calculateContrast(GetLuminance(darkOptimized[k]), 13300)]],
        Len(darkOptimized))]

\* UIComponents.getAccessibilityLevel
getAccessibilityLevel(contrast) ==
    IF contrast >= 70000 THEN "AAA" ELSE IF contrast >= 45000 THEN "AA" ELSE "FAIL"

\* the level of the badge of createCompactOptimizedColorCard
BadgeLevel(optimizedColor, backgroundType) ==
    getAccessibilityLevel(GetContrastRatio(optimizedColor,
        IF backgroundType = "light" THEN whiteColor ELSE darkBgColor))

----------------------------------------------------------------------------
(* The instance and the calls made on it *)

\* colour objects by identity and the three arrays of references to them
NoHeap == [objects |-> <<>>, base |-> <<>>, lightOptimized |-> <<>>, darkOptimized |-> <<>>]

\* palette[k] = color writing the colour into the object the slot refers to
StoreSlotInPlace(h, array, k, color) ==
    [h EXCEPT !.objects = [@ EXCEPT ![h[array][k]] = color]]

\* palette[k] = color: the slot refers to a new object, no object is changed
StoreSlot(h, array, k, color) ==
    [h EXCEPT !.objects = Append(@, color),
              ![array] = [@ EXCEPT ![k] = Len(h.objects) + 1]]

RECURSIVE MapSlots(_, _, _, _)
\* baseColors.map(optimizeColorForBackground) from slot k on: a new array whose
\* slot holds the object of the base palette where the optimizer returned it
MapSlots(h, array, colors, k) ==
    IF k > Len(colors) THEN h
    ELSE IF colors[k] = h.objects[h.base[k]]
    THEN MapSlots([h EXCEPT ![array] = Append(@, h.base[k])], array, colors, k + 1)
    ELSE MapSlots([h EXCEPT !.objects = Append(@, colors[k]),
                            ![array] = Append(@, Len(h.objects) + 1)],
                  array, colors, k + 1)

RECURSIVE WriteSlots(_, _, _, _)
\* the assignments palette[k] = ... of applySimpleDifferentiation from slot k on
WriteSlots(h, array, colors, k) ==
    IF k > Len(colors) THEN h
    ELSE IF colors[k] = h.objects[h[array][k]]
    THEN WriteSlots(h, array, colors, k + 1)
    ELSE WriteSlots(StoreSlot(h, array, k, colors[k]), array, colors, k + 1)

\* the objects and arrays a generatePalette run leaves
generatePaletteObjects(run) ==
    IF run.threw THEN NoHeap
    ELSE LET baseColors == [NoHeap EXCEPT !.objects = run.base,
                                          !.base = ToSeq([k \in 1..Len(run.base) |-> k],
                                                         Len(run.base))]
             lightColors == MapSlots(baseColors, "lightOptimized", run.light0, 1)
             darkColors == MapSlots(lightColors, "darkOptimized", run.dark0, 1)
         IN  WriteSlots(WriteSlots(darkColors, "lightOptimized", run.lightOptimized, 1),
                        "darkOptimized", run.darkOptimized, 1)

NoResult == [threw |-> FALSE, base |-> <<>>, lightOptimized |-> <<>>, darkOptimized |-> <<>>]
NoTrace == [light |-> <<>>, dark |-> <<>>, lightSteps |-> <<>>, darkSteps |-> <<>>]

\* the settings of a new application state
DefaultSettings ==
    [paletteSize |-> <<"5">>, wcagLevel |-> "AA", harmonyType |-> "triadic",
     baseColor |-> DefaultBaseColor, differentiationSettings |-> AppDifferentiation(TRUE)]

\* new PaletteGenerator(), held by a new ColorPaletteApp
Init ==
    /\ harmonyType = "triadic"
    /\ op = "new"
    /\ args = <<>>
    /\ ret = NoResult
    /\ optimized = NoTrace
    /\ ref = <<>>
    /\ stateSettings = DefaultSettings
    /\ paletteHistory = <<>>
    /\ pending = <<>>
    /\ loadTimers = 0
    /\ heap = NoHeap
    /\ isLoading = FALSE
    /\ debounceTimeout = 0
    /\ timers = {}
    /\ now = 0
    /\ lastInput = -1

\* what the kept call knows after one more call: how many calls followed it (up
\* to 2) and whether one of them had other options
Later(kept, options) ==
    [kept EXCEPT !.later = Min(2, @ + 1),
                 !.other = @ \/ options # kept.args]

\* generatePalette(options); keep says whether this call is the one kept in ref
GeneratePalette(options, keep) ==
    \E self \in {AssignHarmonyType(harmonyType, options)} :
      \E run \in {Run(self, options)} :
        \E result \in {[threw |-> run.threw, base |-> run.base,
                         lightOptimized |-> run.lightOptimized,
                         darkOptimized |-> run.darkOptimized]} :
            /\ harmonyType' = self
            /\ op' = "generatePalette"
            /\ args' = options
            /\ ret' = result
            /\ optimized' = [light |-> run.light0, dark |-> run.dark0,
                             lightSteps |-> run.lightSteps,
                             darkSteps |-> run.darkSteps]
            /\ ref' = IF keep
                      THEN <<[args |-> options, ret |-> result, later |-> 0,
                              other |-> FALSE]>>
                      ELSE IF ref = <<>> THEN ref
                      ELSE <<Later(ref[1], options)>>
            /\ heap' = generatePaletteObjects(run)
            /\ UNCHANGED appVars

\* colorHarmonies[type](hue)
ColorHarmonies(type, hue) ==
    /\ op' = "colorHarmonies"
    /\ args' = [type |-> type, hue |-> hue]
    /\ ret' = colorHarmonies(type, hue)
    /\ UNCHANGED <<harmonyType, optimized, ref>>
    /\ UNCHANGED appVars
    /\ UNCHANGED heap

\* applySimpleDifferentiation(palette, backgroundColor, minContrastRatio) called
\* directly; ret is the palette array as the call leaves it
ApplySimpleDifferentiation(c) ==
    /\ harmonyType \in {"triadic", "monochromatic"}
    /\ op' = "applySimpleDifferentiation"
    /\ args' = [palette |-> SamplePalette(c), backgroundColor |-> BackgroundOf(c),
                minContrastRatio |-> c.minContrastRatio]
    /\ ret' = DiffMemo[<<harmonyType, c>>]
    /\ UNCHANGED <<harmonyType, optimized, ref>>
    /\ UNCHANGED appVars
    /\ UNCHANGED heap

\* optimizeColorForBackground(originalColor, backgroundColor, targetRatio,
\* colorIndex, totalColors) called directly
OptimizeColorForBackground(c) ==
    /\ harmonyType \in {"triadic", "monochromatic"}
    /\ \E found \in {OptimizeMemo[<<harmonyType, c>>]} :
          /\ op' = "optimizeColorForBackground"
          /\ args' = [originalColor |-> FromHsl(c.hsl[1], c.hsl[2], c.hsl[3]),
                      backgroundColor |-> BackgroundOf(c),
                      targetRatio |-> c.targetRatio,
                      colorIndex |-> c.slot[1], totalColors |-> c.slot[2]]
          /\ ret' = found.color
          /\ optimized' = [steps |-> found.steps, phase |-> found.phase,
                           handed |-> found.handed]
    /\ UNCHANGED <<harmonyType, ref>>
    /\ UNCHANGED appVars
    /\ UNCHANGED heap

\* generateOptimizedPalette(baseColors, backgroundColor, minContrastRatio) called
\* directly
GenerateOptimizedPalette(c) ==
    /\ harmonyType \in {"triadic", "monochromatic"}
    /\ op' = "generateOptimizedPalette"
    /\ args' = [baseColors |-> SampleBaseColors[c.base],
                backgroundColor |-> BackgroundOf(c),
                minContrastRatio |-> c.minContrastRatio]
    /\ ret' = PaletteMemo[<<harmonyType, c>>]
    /\ UNCHANGED <<harmonyType, optimized, ref>>
    /\ UNCHANGED appVars
    /\ UNCHANGED heap

\* the arguments of a direct call of a stage
StageArgs(c) ==
    [palette |-> StagePalette(c.palette), backgroundColor |-> BackgroundOf(c),
     minContrastRatio |-> c.minContrastRatio]

\* distributeColorsOptimally(palette, backgroundColor, minContrastRatio, 10) called
\* directly; ret is the palette array as the call leaves it
DistributeColorsOptimally(c) ==
    /\ op' = "distributeColorsOptimally"
    /\ args' = StageArgs(c)
    /\ ret' = StageMemo[c].lightness
    /\ UNCHANGED <<harmonyType, optimized, ref>>
    /\ UNCHANGED appVars
    /\ UNCHANGED heap

\* adjustSaturationForDifferentiation(palette, 20) called directly
AdjustSaturationForDifferentiation(c) ==
    /\ op' = "adjustSaturationForDifferentiation"
    /\ args' = StageArgs(c)
    /\ ret' = StageMemo[c].saturation
    /\ UNCHANGED <<harmonyType, optimized, ref>>
    /\ UNCHANGED appVars
    /\ UNCHANGED heap

\* applyMinimalHueAdjustments(palette, backgroundColor, minContrastRatio, 10)
\* called directly
ApplyMinimalHueAdjustments(c) ==
    /\ op' = "applyMinimalHueAdjustments"
    /\ args' = StageArgs(c)
    /\ ret' = StageMemo[c].hue
    /\ UNCHANGED <<harmonyType, optimized, ref>>
    /\ UNCHANGED appVars
    /\ UNCHANGED heap

\* the generations started and not finished, and those of them that will add to
\* the history
Outstanding == Len(pending) + loadTimers

HistoryToCome ==
    Len(paletteHistory) + loadTimers
        + Cardinality({i \in 1..Len(pending) : pending[i].history})

\* stateManager.setLoading(value): the new value of the flag
setLoading(value) == value

\* ColorPaletteApp.generatePalette up to its await: the settings are read now
StartGeneratePalette(current) == Append(pending, [history |-> TRUE, settings |-> current])

\* handleSettingsChange: the form's settings are stored and a generation starts;
\* the caller says what becomes of the debounce timers
HandleSettingsChange(newSettings) ==
    /\ Outstanding < MaxPending
    /\ HistoryToCome < MaxHistory
    /\ stateSettings' = newSettings
    /\ pending' = StartGeneratePalette(newSettings)
    /\ isLoading' = setLoading(TRUE)
    /\ op' = "handleSettingsChange"
    /\ args' = newSettings
    /\ ret' = NoResult
    /\ UNCHANGED <<harmonyType, optimized, ref, heap, paletteHistory, loadTimers>>

\* handleDifferentiationChange: the switch is stored and generatePaletteWithoutHistory
\* runs up to its await
HandleDifferentiationChange(enabled) ==
    /\ Outstanding < MaxPending
    /\ \E current \in {[stateSettings EXCEPT !.differentiationSettings =
                                            AppDifferentiation(enabled)]} :
          /\ stateSettings' = current
          /\ pending' = Append(pending, [history |-> FALSE, settings |-> current])
          /\ args' = current
    /\ isLoading' = setLoading(TRUE)
    /\ op' = "handleDifferentiationChange"
    /\ ret' = NoResult
    /\ UNCHANGED <<harmonyType, optimized, ref, heap, paletteHistory, loadTimers>>
    /\ UNCHANGED debounceVars

\* window.loadHistoryItem(index): the item's settings are stored and generatePalette
\* is set to run after 100 ms
LoadHistoryItem(index) ==
    /\ index \in 1..Len(paletteHistory)
    /\ Outstanding < MaxPending
    /\ HistoryToCome < MaxHistory
    /\ stateSettings' = paletteHistory[index].settings
    /\ loadTimers' = loadTimers + 1
    /\ op' = "loadHistoryItem"
    /\ args' = index
    /\ ret' = NoResult
    /\ UNCHANGED <<harmonyType, optimized, ref, heap, paletteHistory, pending, isLoading>>
    /\ UNCHANGED debounceVars

\* the 100 ms timer of loadHistoryItem fires: generatePalette runs up to its await
LoadTimerFires ==
    /\ loadTimers > 0
    /\ loadTimers' = loadTimers - 1
    /\ pending' = StartGeneratePalette(stateSettings)
    /\ isLoading' = setLoading(TRUE)
    /\ op' = "loadHistoryItem.timer"
    /\ args' = stateSettings
    /\ ret' = NoResult
    /\ UNCHANGED <<harmonyType, optimized, ref, heap, stateSettings, paletteHistory>>
    /\ UNCHANGED debounceVars

\* a change event of the paletteSize, wcagLevel or harmonyType control
ChangeEvent(newSettings) ==
    /\ HandleSettingsChange(newSettings)
    /\ UNCHANGED debounceVars

\* debouncedSettingsChange without the clearTimeout
DebouncedSettingsChangeNoClear ==
    /\ debounceTimeout < MaxTimers
    /\ timers' = timers \cup {[id |-> debounceTimeout + 1, due |-> now + DebounceDelay]}
    /\ debounceTimeout' = debounceTimeout + 1
    /\ lastInput' = now
    /\ op' = "debouncedSettingsChange"
    /\ args' = <<>>
    /\ ret' = NoResult
    /\ UNCHANGED <<harmonyType, optimized, ref, heap, now>>
    /\ UNCHANGED <<stateSettings, paletteHistory, pending, loadTimers, isLoading>>

\* an input event on the base colour: debouncedSettingsChange clears the timer
\* this.debounceTimeout names and sets a new one 300 ms ahead
DebouncedSettingsChange ==
    /\ debounceTimeout < MaxTimers
    /\ timers' = {t \in timers : debounceTimeout = 0 \/ t.id # debounceTimeout}
                    \cup {[id |-> debounceTimeout + 1, due |-> now + DebounceDelay]}
    /\ debounceTimeout' = debounceTimeout + 1
    /\ lastInput' = now
    /\ op' = "debouncedSettingsChange"
    /\ args' = <<>>
    /\ ret' = NoResult
    /\ UNCHANGED <<harmonyType, optimized, ref, heap, now>>
    /\ UNCHANGED <<stateSettings, paletteHistory, pending, loadTimers, isLoading>>

\* a debounce timer is due: its callback calls handleSettingsChange with the
\* settings of the form
DebounceTimerFires(newSettings) ==
    /\ \E t \in timers :
          /\ t.due <= now
          /\ timers' = timers \ {t}
    /\ HandleSettingsChange(newSettings)
    /\ UNCHANGED <<debounceTimeout, now, lastInput>>

\* 100 ms pass; a timer that is due fires before the time moves on
Tick ==
    /\ now < MaxTime
    /\ \A t \in timers : t.due > now
    /\ now' = now + 1
    /\ UNCHANGED <<harmonyType, op, args, ret, optimized, ref, heap>>
    /\ UNCHANGED <<stateSettings, paletteHistory, pending, loadTimers, isLoading>>
    /\ UNCHANGED <<debounceTimeout, timers, lastInput>>

\* stateManager.addToHistory(palette): one entry with the palette and a copy of
\* the settings of the state
AddToHistory(history, palette, current) ==
    Append(history, [palette |-> palette, settings |-> current])

\* the part of the two generation methods after the await: the PaletteGenerator
\* runs with the settings read before it; an exception ends in the catch block
FinishGeneration(name, addsToHistory) ==
    /\ pending # <<>>
    /\ \E self \in {AssignHarmonyType(harmonyType, Head(pending).settings)} :
        \E run \in {Run(self, Head(pending).settings)} :
          /\ harmonyType' = self
          /\ op' = name
          /\ args' = Head(pending).settings
          /\ ret' = [threw |-> run.threw, base |-> run.base,
                     lightOptimized |-> run.lightOptimized,
                     darkOptimized |-> run.darkOptimized]
          /\ optimized' = [light |-> run.light0, dark |-> run.dark0,
                           lightSteps |-> run.lightSteps, darkSteps |-> run.darkSteps]
          /\ heap' = generatePaletteObjects(run)
          /\ paletteHistory' = IF addsToHistory /\ ~run.threw
                               THEN AddToHistory(paletteHistory, run.base, stateSettings)
                               ELSE paletteHistory
    /\ pending' = Tail(pending)
    /\ isLoading' = setLoading(FALSE)
    /\ UNCHANGED <<ref, stateSettings, loadTimers>>
    /\ UNCHANGED debounceVars

\* generatePaletteWithoutHistory with a call of addToHistory
FinishWithoutHistoryAdding ==
    /\ pending # <<>> /\ ~Head(pending).history
    /\ FinishGeneration("generatePaletteWithoutHistory", TRUE)

\* generatePaletteWithoutHistory after its await
FinishGeneratePaletteWithoutHistory ==
    /\ pending # <<>> /\ ~Head(pending).history
    /\ FinishGeneration("generatePaletteWithoutHistory", FALSE)

\* ColorPaletteApp.generatePalette after its await
FinishGeneratePalette ==
    /\ pending # <<>> /\ Head(pending).history
    /\ FinishGeneration("ColorPaletteApp.generatePalette", TRUE)

\* ExportManager.exportJSON(palettes, settings) of the palettes just generated:
\* the accessibility part of the export
ExportJSON ==
    /\ op = "generatePalette" /\ ~ret.threw
    /\ op' = "exportJSON"
    /\ args' = [palettes |-> ret, settings |-> args]
    /\ ret' = [contrastRatios |->
                  calculateContrastRatios(ret.lightOptimized, ret.darkOptimized),
               wcagCompliance |->
                  checkWCAGCompliance(ret.lightOptimized, ret.darkOptimized,
                                      args.wcagLevel)]
    /\ UNCHANGED <<harmonyType, optimized, ref>>
    /\ UNCHANGED appVars
    /\ UNCHANGED heap

Next == \E o \in OptionsCore : GeneratePalette(o, FALSE)

Spec == Init /\ [][Next]_vars

NextRepeat == \E o \in OptionsRepeat, keep \in BOOLEAN : GeneratePalette(o, keep)

SpecRepeat == Init /\ [][NextRepeat]_vars

NextSize == \E o \in OptionsSize, keep \in BOOLEAN : GeneratePalette(o, keep)

SpecSize == Init /\ [][NextSize]_vars

NextTuning == \E o \in OptionsTuning, keep \in BOOLEAN : GeneratePalette(o, keep)

SpecTuning == Init /\ [][NextTuning]_vars

NextHarmony == \E type \in HarmonyTypes, hue \in Hues : ColorHarmonies(type, hue)

SpecHarmony == Init /\ [][NextHarmony]_vars

NextDiff ==
    \/ \E o \in OptionsDiff : GeneratePalette(o, FALSE)
    \/ \E c \in DiffCalls : ApplySimpleDifferentiation(c)

SpecDiff == Init /\ [][NextDiff]_vars

NextOptimizer ==
    \/ \E o \in OptionsDiff : GeneratePalette(o, FALSE)
    \/ \E c \in OptimizeCalls : OptimizeColorForBackground(c)
    \/ \E c \in PaletteCalls : GenerateOptimizedPalette(c)

SpecOptimizer == Init /\ [][NextOptimizer]_vars

NextStages ==
    \/ \E o \in OptionsDiff : GeneratePalette(o, FALSE)
    \/ \E c \in DiffCalls : ApplySimpleDifferentiation(c)
    \/ \E c \in StageCalls : DistributeColorsOptimally(c)
    \/ \E c \in StageCalls : AdjustSaturationForDifferentiation(c)
    \/ \E c \in StageCalls : ApplyMinimalHueAdjustments(c)

SpecStages == Init /\ [][NextStages]_vars

NextApp ==
    \/ \E newSettings \in FormSettings : ChangeEvent(newSettings)
    \/ \E enabled \in BOOLEAN : HandleDifferentiationChange(enabled)
    \/ \E index \in 1..MaxHistory : LoadHistoryItem(index)
    \/ LoadTimerFires
    \/ FinishGeneratePalette
    \/ FinishGeneratePaletteWithoutHistory

SpecApp == Init /\ [][NextApp]_vars

\* input events on the base colour in time
NextDebounce ==
    \/ DebouncedSettingsChange
    \/ DebounceTimerFires(DefaultSettings)
    \/ Tick
    \/ FinishGeneratePalette

SpecDebounce == Init /\ [][NextDebounce]_vars

NextExport ==
    \/ \E o \in OptionsCore : GeneratePalette(o, FALSE)
    \/ ExportJSON

SpecExport == Init /\ [][NextExport]_vars

\* the two uses of the contrast search: the optimizer and the repair pass of the
\* monochromatic routine
NextRepair ==
    \/ \E c \in OptimizeCalls : OptimizeColorForBackground(c)
    \/ \E c \in RepairCalls : ApplySimpleDifferentiation(c)

SpecRepair == Init /\ [][NextRepair]_vars

----------------------------------------------------------------------------
(* Properties *)

IsCall == op = "generatePalette"

Returned == IsCall /\ ~ret.threw

\* the current call follows the kept one
AfterKept == IsCall /\ ref # <<>> /\ ref[1].later >= 1

MeetsContrast(palette, backgroundColor, ratio) ==
    \A k \in 1..Len(palette) : GetContrastRatio(palette[k], backgroundColor) >= ratio

NoContrastLoss(before, after, backgroundColor) ==
    \A k \in 1..Len(after) :
        GetContrastRatio(after[k], backgroundColor)
            >= GetContrastRatio(before[k], backgroundColor)

HueShiftWithin(before, after, limit) ==
    \A k \in 1..Len(after) :
        getCircularHueDistance(before[k].hsl[1], after[k].hsl[1]) <= limit

SameLengths ==
    /\ Len(ret.lightOptimized) = Len(ret.base)
    /\ Len(ret.darkOptimized) = Len(ret.base)

\* a and b differ at most in paletteSize
SameButSize(a, b) == a = [b EXCEPT !.paletteSize = a.paletteSize]

\* a and b differ at most in minHueDifference and minLuminanceDifference
SameButTuning(a, b) ==
    /\ [a EXCEPT !.differentiationSettings = 0] = [b EXCEPT !.differentiationSettings = 0]
    /\ a.differentiationSettings.enabled = b.differentiationSettings.enabled

\* C1: a generatePalette call with the same options as an earlier call on the same
\* instance returns the same base, lightOptimized and darkOptimized colours,
\* whatever other calls were made before or between the two.
C1_Deterministic ==
    (AfterKept /\ args = ref[1].args) => ret = ref[1].ret

\* two other calls lie between the kept call and its repetition, and the call
\* before the kept one left another harmony type in the field
C1_Witness ==
    /\ AfterKept /\ ref[1].later = 2 /\ ref[1].other
    /\ args = ref[1].args /\ args.harmonyType = Undefined
    /\ Returned /\ ret = ref[1].ret

LightSearchLimit == IF harmonyType = "monochromatic" THEN 8 + 45 ELSE 11 + 45
DarkSearchLimit == IF Len(ret.base) = 3 THEN 13 + 45 ELSE 11 + 45

C6_OtherSizesAreFive ==
    IsCall =>
        /\ Len(ret.base) \in {3, 5}
        /\ SameLengths
        /\ args.paletteSize \notin {<<"3">>, <<"5">>} => Len(ret.base) = 5
        /\ (/\ AfterKept
            /\ SameButSize(args, ref[1].args)
            /\ ref[1].args.paletteSize = <<"5">>
            /\ args.paletteSize \notin {<<"3">>, <<"5">>}) => ret = ref[1].ret

\* the size texts whose leading integer is 3
LeadingThree == { <<"3">>, <<"3", ".", "7">>, <<"3", "p", "x">> }

\* C6 amended: a paletteSize whose leading integer is 3 gives the palettes of
\* paletteSize 3, every other value gives the palettes of paletteSize 5, and the
\* three palettes have the same length, 3 or 5.
C6_SizeByLeadingInteger ==
    IsCall =>
        /\ Len(ret.base) = IF args.paletteSize \in LeadingThree THEN 3 ELSE 5
        /\ SameLengths
        /\ (/\ AfterKept
            /\ SameButSize(args, ref[1].args)
            /\ ref[1].args.paletteSize = <<"5">>
            /\ args.paletteSize \notin LeadingThree) => ret = ref[1].ret
        /\ (/\ AfterKept
            /\ SameButSize(args, ref[1].args)
            /\ ref[1].args.paletteSize = <<"3">>
            /\ args.paletteSize \in LeadingThree) => ret = ref[1].ret

\* size 4 after the same call with size 5: the same five-colour palettes
C6_Witness ==
    /\ AfterKept /\ SameButSize(args, ref[1].args)
    /\ ref[1].args.paletteSize = <<"5">> /\ args.paletteSize = <<"4">>
    /\ ret = ref[1].ret /\ Len(ret.base) = 5

\* C7: for a base hue h in [0, 360) the harmonies are complementary [h, h+180],
\* triadic [h, h+120, h+240], analogous [h, h+25, h+50, h-25, h-50],
\* monochromatic [h, h, h, h, h] and tetradic [h, h+90, h+180, h+270], all modulo
\* 360, and every hue returned lies in [0, 360).
C7_HarmonyHues ==
    (op = "colorHarmonies" /\ args.hue >= 0 /\ args.hue < 36000) =>
        /\ \A k \in 1..Len(ret) : ret[k] >= 0 /\ ret[k] < 36000
        /\ args.type = "complementary" =>
              ret = <<args.hue, (args.hue + 18000) % 36000>>
        /\ args.type = "triadic" =>
              ret = <<args.hue, (args.hue + 12000) % 36000,
                      (args.hue + 24000) % 36000>>
        /\ args.type = "analogous" =>
              ret = <<args.hue, (args.hue + 2500) % 36000, (args.hue + 5000) % 36000,
                      (args.hue + 33500) % 36000, (args.hue + 31000) % 36000>>
        /\ args.type = "monochromatic" =>
              ret = <<args.hue, args.hue, args.hue, args.hue, args.hue>>
        /\ args.type = "tetradic" =>
              ret = <<args.hue, (args.hue + 9000) % 36000,
                      (args.hue + 18000) % 36000, (args.hue + 27000) % 36000>>

\* analogous of hue 10: both subtractions wrap below zero
C7_Witness ==
    /\ op = "colorHarmonies" /\ args.type = "analogous" /\ args.hue = 1000
    /\ ret = <<1000, 3500, 6000, 34500, 32000>>

C9_HueShiftAtMostTen ==
    /\ op = "applySimpleDifferentiation" => HueShiftWithin(args.palette, ret, 1000)
    /\ (Returned /\ args.differentiationSettings.enabled) =>
          /\ HueShiftWithin(optimized.light, ret.lightOptimized, 1000)
          /\ HueShiftWithin(optimized.dark, ret.darkOptimized, 1000)

\* C10: two generatePalette calls whose options differ only in minHueDifference
\* and minLuminanceDifference return the same palettes, and with enabled = false
\* the optimized palettes are the contrast optimizer's output.
C10_TuningIgnored ==
    /\ (AfterKept /\ SameButTuning(args, ref[1].args)) => ret = ref[1].ret
    /\ (Returned /\ ~args.differentiationSettings.enabled) =>
          /\ ret.lightOptimized = optimized.light
          /\ ret.darkOptimized = optimized.dark

\* both fields differ from the kept call's, differentiation is on and changed the
\* light palette, and the palettes are those of the kept call
C10_Witness ==
    /\ AfterKept /\ SameButTuning(args, ref[1].args)
    /\ args.differentiationSettings.minHueDifference
          # ref[1].args.differentiationSettings.minHueDifference
    /\ args.differentiationSettings.minLuminanceDifference
          # ref[1].args.differentiationSettings.minLuminanceDifference
    /\ args.differentiationSettings.enabled
    /\ ret.lightOptimized # optimized.light
    /\ ret = ref[1].ret

\* the field of a new instance
FreshHarmonyType == "triadic"

IsOptimize == op = "optimizeColorForBackground"

\* C11: optimizeColorForBackground and generateOptimizedPalette return for the same
\* arguments the same colours whatever generatePalette calls preceded them: what
\* they return is what they return on a new instance.
C11_NoStateKept ==
    /\ IsOptimize =>
          ret = optimizeColorForBackground(FreshHarmonyType, args.originalColor,
                    args.backgroundColor, args.targetRatio, args.colorIndex,
                    args.totalColors).color
    /\ op = "generateOptimizedPalette" =>
          ret = ColorsOf(generateOptimizedPalette(FreshHarmonyType, args.baseColors,
                             args.backgroundColor, args.minContrastRatio))

OriginalContrast == GetContrastRatio(args.originalColor, args.backgroundColor)

UpperBoundOf(targetRatio) == IF targetRatio = 45000 THEN 60000 ELSE 85000

Candidate(l) == FromHsl(args.originalColor.hsl[1], args.originalColor.hsl[2], l)

CandidateContrast(l) == GetContrastRatio(Candidate(l), args.backgroundColor)

\* the slot's target lightness range and the lightness values of its scan
SlotRange ==
    getTargetLightnessRange(IsLightBackground(args.backgroundColor), args.colorIndex,
                            args.totalColors, harmonyType)

ScanLightness ==
    {SlotRange[1] + 200 * i : i \in 0..((SlotRange[2] - SlotRange[1]) \div 200)}

InBand(l) ==
    /\ CandidateContrast(l) >= args.targetRatio
    /\ CandidateContrast(l) <= UpperBoundOf(args.targetRatio)

ExpandedLightness(i) ==
    (SlotRange[1] + SlotRange[2]) \div 2
        + (IF IsLightBackground(args.backgroundColor) THEN -1 ELSE 1)
            * (IF args.targetRatio >= 70000 THEN 100 ELSE 200) * i

\* the steps the expanded search takes: at most 45, while lightness is in [5, 95]
ExpandedSteps ==
    {i \in 1..45 : \A j \in 1..i : ExpandedLightness(j) >= 500 /\ ExpandedLightness(j) <= 9500}

IsDifferentiation == op = "applySimpleDifferentiation"

IsStageCall ==
    op \in {"distributeColorsOptimally", "adjustSaturationForDifferentiation",
            "applyMinimalHueAdjustments"}

ContrastOf(color) == GetContrastRatio(color, args.backgroundColor)

HuesWithin(palette, limit) ==
    \A k \in 1..Len(palette) :
        getCircularHueDistance(palette[k].hsl[1], palette[1].hsl[1]) < limit

\* some colour's hue is exactly 5 degrees away from the first colour's hue
HueAtFive(palette) ==
    \E k \in 1..Len(palette) :
        getCircularHueDistance(palette[k].hsl[1], palette[1].hsl[1]) = 500

MonochromaticResult ==
    enhanceMonochromaticDifferentiation(harmonyType, args.palette,
                                        args.backgroundColor, args.minContrastRatio)

GeneralResult ==
    GeneralStages(args.palette, args.backgroundColor, args.minContrastRatio,
                  [minLuminanceDifference |-> 0])

\* C17 as stated: the monochromatic routine alone runs exactly when every hue is
\* at most 5 degrees from the first hue, a distance of exactly 5 included;
\* otherwise the three general stages run.
C17_MonochromaticWithinFive ==
    IsDifferentiation =>
        ret = IF HuesWithin(args.palette, 501) THEN MonochromaticResult
              ELSE GeneralResult

\* C17 amended: the monochromatic routine alone runs exactly when every hue is
\* less than 5 degrees from the first hue; with a hue exactly 5 degrees away the
\* three general stages run.
C17_MonochromaticBelowFive ==
    IsDifferentiation =>
        ret = IF HuesWithin(args.palette, 500) THEN MonochromaticResult
              ELSE GeneralResult

\* hues 0, 2.5 and 5: the three general stages ran, not the monochromatic routine
C17_Witness ==
    /\ IsDifferentiation /\ Len(args.palette) = 3
    /\ args.palette[1].hsl[1] = 0 /\ args.palette[2].hsl[1] = 250
    /\ args.palette[3].hsl[1] = 500
    /\ HueAtFive(args.palette)
    /\ ret = GeneralResult /\ ret # MonochromaticResult

\* the lightness table of stage 1
StageOneTable ==
    IF IsLightBackground(args.backgroundColor)
    THEN IF Len(args.palette) = 3 THEN <<1500, 3500, 5500>>
         ELSE <<1000, 2500, 4000, 5500, 7000>>
    ELSE IF Len(args.palette) = 3 THEN <<6000, 7500, 9000>>
         ELSE <<5000, 6500, 8000, 9000, 9500>>

\* slot k at its table lightness moved by a: darker for a light background,
\* lighter for a dark one
StageOneTry(k, a) ==
    FromHsl(args.palette[k].hsl[1], args.palette[k].hsl[2],
            Max(0, Min(10000, StageOneTable[k]
                + (IF IsLightBackground(args.backgroundColor) THEN -a ELSE a))))

StageOneMoves == {0, 500, 1000, 1500, 2000, 2500}

SimilarSlots(palette, i, j) ==
    /\ Abs(palette[i].hsl[2] - palette[j].hsl[2]) < 2000
    /\ Abs(palette[i].hsl[3] - palette[j].hsl[3]) < 1500

\* saturation s pushed 30 away from saturation t and clamped to [20, 95]
PushedFrom(s, t) == IF s > t THEN Min(9500, s + 3000) ELSE Max(2000, s - 3000)

RECURSIVE PushedSaturation(_, _, _)
\* the saturation of slot j after the pairs (i, j), (i + 1, j), ... of stage 2
PushedSaturation(i, j, s) ==
    IF i >= j THEN s
    ELSE PushedSaturation(i + 1, j,
            IF SimilarSlots(args.palette, i, j) THEN PushedFrom(s, ret[i].hsl[2]) ELSE s)

CloseSlots(palette, i, j) ==
    /\ getCircularHueDistance(palette[i].hsl[1], palette[j].hsl[1]) < 1500
    /\ Abs(palette[i].hsl[3] - palette[j].hsl[3]) < 1000
    /\ Abs(palette[i].hsl[2] - palette[j].hsl[2]) < 1000

\* the colour with its hue moved by delta degrees/100, modulo 360
HueMoved(color, delta) ==
    FromHsl((color.hsl[1] + delta + 36000) % 36000, color.hsl[2], color.hsl[3])

\* +10 degrees, or else -10 degrees, or else unchanged
ShiftedOnce(color) ==
    IF ContrastOf(HueMoved(color, 1000)) >= args.minContrastRatio
    THEN HueMoved(color, 1000)
    ELSE IF ContrastOf(HueMoved(color, -1000)) >= args.minContrastRatio
    THEN HueMoved(color, -1000)
    ELSE color

RECURSIVE Shifted(_, _)
Shifted(color, n) == IF n = 0 THEN color ELSE Shifted(ShiftedOnce(color), n - 1)

WithoutEntry(history, i) ==
    SubSeq(history, 1, i - 1) \o SubSeq(history, i + 1, Len(history))

LadderTable(size) ==
    IF size = 3 THEN <<1500, 5000, 8500>> ELSE <<1000, 3000, 5000, 7000, 9000>>

LadderLightness(k) ==
    IF GetLuminance(args.backgroundColor) > 50000
    THEN LadderTable(Len(args.palette))[k]
    ELSE 10000 - LadderTable(Len(args.palette))[k]

\* the colour the monochromatic routine first gives slot k
LadderColor(k) ==
    FromHsl((args.palette[1].hsl[1] + 500 * (k - 1)) % 36000,
            Max(4000, args.palette[k].hsl[2]), LadderLightness(k))

\* the search the repair pass runs for slot k
LadderRepair(k) ==
    findOptimalColor(harmonyType, LadderColor(k), args.backgroundColor,
                     args.minContrastRatio, (3 * args.minContrastRatio) \div 2,
                     k - 1, Len(args.palette)).color

IsMonochromaticCall == IsDifferentiation /\ HuesWithin(args.palette, 500)

LadderThenRepair ==
    \A k \in 1..Len(ret) :
        ret[k] = IF ContrastOf(LadderColor(k)) >= args.minContrastRatio
                 THEN LadderColor(k) ELSE LadderRepair(k)

IsMonochromaticRun == Returned /\ args.harmonyType = "monochromatic"

\* C22: for harmonyType monochromatic every slot of the base palette has the base
\* colour's hue; the slots differ only in saturation and lightness.
C22_MonochromaticHueConstant ==
    IsMonochromaticRun =>
        \A k \in 1..Len(ret.base) : ret.base[k].hsl[1] = ret.base[1].hsl[1]

\* saturation and lightness of slot i before the final clamp, in 1/100 percent
SlotSaturation(type, i) ==
    LET table == <<7500, 6000, 8500, 5000>>[i]
    IN  CASE type = "complementary" /\ i = 1 -> IF table + 1000 > 8500 THEN 8500
                                                ELSE table + 1000
          [] type = "analogous" -> IF table - 500 < 5000 THEN 5000 ELSE table - 500
          [] OTHER -> table

SlotLightness(type, i) ==
    LET table == <<5000, 3500, 7000, 2000>>[i]
    IN  CASE type = "complementary" /\ i = 1 -> table - 500
          [] type = "analogous" /\ i = 2 -> table + 1000
          [] type = "tetradic" -> IF i % 2 = 1 THEN table - 1000 ELSE table + 1000
          [] OTHER -> table

Clamped(x, low, high) == IF x < low THEN low ELSE IF x > high THEN high ELSE x

HarmonySlot(type, i) ==
    LET harmonyHues == colorHarmonies(type, ret.base[1].hsl[1])
    IN  FromHsl(harmonyHues[(i % Len(harmonyHues)) + 1],
                Clamped(SlotSaturation(type, i), 2000, 9500),
                Clamped(SlotLightness(type, i), 1000, 9000))

C25_MonochromaticDetected ==
    (IsMonochromaticRun /\ args.differentiationSettings.enabled) =>
        /\ HuesWithin(optimized.light, 500)
        /\ HuesWithin(optimized.dark, 500)
        /\ ret.lightOptimized =
              enhanceMonochromaticDifferentiation("monochromatic", optimized.light,
                                                  whiteColor, MinContrastRatioOf(args.wcagLevel))
        /\ ret.darkOptimized =
              enhanceMonochromaticDifferentiation("monochromatic", optimized.dark,
                                                  darkBgColor, MinContrastRatioOf(args.wcagLevel))

ColorsIn(array) == ToSeq([k \in 1..Len(array) |-> heap.objects[array[k]]], Len(array))

ExportAgrees(palette, background, backgroundType, ratios, compliance, k) ==
    LET contrast == GetContrastRatio(palette[k], background)
    IN  /\ ratios[k].ratio = contrast
        /\ compliance[k].ratio = contrast
        /\ compliance[k].compliant =
              (contrast >= MinContrastRatioOf(args.settings.wcagLevel))
        /\ compliance[k].level = BadgeLevel(palette[k], backgroundType)

InputStep == debounceTimeout' # debounceTimeout

====
